---- MODULE Spec2Model ----
(***************************************************************************)
(* Model of the network engine of ovds/neural                              *)
(* (src/src/utils/neuralNetwork.ts): topology construction, the forward    *)
(* pass, the backward pass, the activation library and the loss; and of    *)
(* the application that drives it (src/src/App.tsx): the training step,    *)
(* the interval, reset, configuration and dataset changes.                 *)
(*                                                                         *)
(* Three specifications share the variables.  Spec is one network          *)
(* instance under forward and backward calls; SpecLoss is a call of        *)
(* calculateLoss; SpecApp is the mounted application, whose state is the   *)
(* record app.                                                             *)
(*                                                                         *)
(* Numbers.  The engine computes on IEEE doubles.  The model computes on   *)
(* fixed-point numbers: the integer v stands for the real v / Scale, sums  *)
(* are exact and every product is rounded to the nearest multiple of       *)
(* 1 / Scale (as a double product is rounded to the nearest double).  The  *)
(* two non-numbers a pass can meet, NaN and undefined, are sentinels       *)
(* outside the range of the numbers the bounded model reaches.             *)
(***************************************************************************)
EXTENDS Integers, Sequences, FiniteSets, TLC

VARIABLES config, nodes, connections, hist, loss, app

vars == <<config, nodes, connections, hist, loss, app>>

----------------------------------------------------------------------------
(* Bounds of the model.                                                    *)

MaxWidth == 2          \* largest layer width drawn
MaxHidden == 2         \* largest number of hidden layers drawn
MaxVec == 2            \* longest inputs / targets vector passed to a call
MaxCalls == 2          \* forward/backward calls made on one network instance
MaxSteps == 2          \* training steps the application takes
MaxBuilds == 3         \* network instances the application builds
MaxSamples == 2        \* samples in the dataset when one more may be added
MaxIndex == 1          \* highest position a sample is removed from
NumSeeds == 2          \* number of random sequences Math.random() may yield

----------------------------------------------------------------------------
(* Numbers.                                                                *)

Scale == 4
NaN == 1000000000
Undefined == 1000000001

IsNumber(v) == v # NaN /\ v # Undefined

\* JavaScript ToNumber on a number or undefined
ToNumber(v) == IF v = Undefined THEN NaN ELSE v

RoundDiv(n, d) ==
  IF n >= 0 THEN (2 * n + d) \div (2 * d) ELSE -((2 * (-n) + d) \div (2 * d))

Add(a, b) ==
  IF ToNumber(a) = NaN \/ ToNumber(b) = NaN THEN NaN ELSE a + b

Sub(a, b) ==
  IF ToNumber(a) = NaN \/ ToNumber(b) = NaN THEN NaN ELSE a - b

Mul(a, b) ==
  IF ToNumber(a) = NaN \/ ToNumber(b) = NaN THEN NaN ELSE RoundDiv(a * b, Scale)

\* v || 0 : a falsy value (undefined, NaN, 0) is replaced by 0
OrZero(v) == IF v = Undefined \/ v = NaN \/ v = 0 THEN 0 ELSE v

\* array[index] with a 0-based index: undefined beyond the end
At(array, index) ==
  IF index + 1 \in DOMAIN array THEN array[index + 1] ELSE Undefined

----------------------------------------------------------------------------
(* Activation library.                                                     *)

\* 1 / (1 + Math.exp(-x)), rounded to the nearest multiple of 1 / Scale
Sigmoid(x) ==
  IF x = NaN THEN NaN
  ELSE IF x <= -8 THEN 0
  ELSE IF x <= -3 THEN 1
  ELSE IF x <= 2 THEN 2
  ELSE IF x <= 7 THEN 3
  ELSE 4

\* Math.tanh(x), rounded to the nearest multiple of 1 / Scale
Tanh(x) ==
  IF x = NaN THEN NaN
  ELSE IF x <= -6 THEN -4
  ELSE IF x <= -3 THEN -3
  ELSE IF x <= 2 THEN x
  ELSE IF x <= 5 THEN 3
  ELSE 4

\* MathMax0 that lets negative sums through
MathMaxLeaky(x) == x

\* Math.max(0, x): NaN when x is NaN
MathMax0(x) == IF x = NaN THEN NaN ELSE IF x > 0 THEN x ELSE 0

\* activate whose default case is the rectifier
activateDefaultRelu(fn, x) ==
  CASE fn = "sigmoid" -> Sigmoid(x)
    [] fn = "relu" -> MathMax0(x)
    [] fn = "tanh" -> Tanh(x)
    [] OTHER -> MathMax0(x)

activate(fn, x) ==
  CASE fn = "sigmoid" -> Sigmoid(x)
    [] fn = "relu" -> MathMax0(x)
    [] fn = "tanh" -> Tanh(x)
    [] OTHER -> Sigmoid(x)

activateDerivative(fn, x) ==
  CASE fn = "sigmoid" -> Mul(x, Sub(Scale, x))
    [] fn = "relu" -> IF x # NaN /\ x > 0 THEN x ELSE 0
    [] fn = "tanh" -> Sub(Scale, Mul(x, x))
    [] OTHER -> Mul(x, Sub(Scale, x))

----------------------------------------------------------------------------
(* Topology builder.                                                       *)

\* The k-th value (k = 0, 1, ...) Math.random() returns in a run whose random
\* sequence is `seed`: a number in [0, 1), that is 0 .. Scale - 1 in units of
\* 1 / Scale.  The sequence is a full-period congruential generator.
RECURSIVE RandomState(_, _)
RandomState(seed, k) ==
  IF k = 0 THEN (7 * seed + 1) % 16 ELSE (5 * RandomState(seed, k - 1) + 3) % 16

MathRandom(seed, k) == RandomState(seed, k) \div (16 \div Scale)

\* Math.random() * 2 - 1
RandomWeight(seed, k) == Sub(Mul(MathRandom(seed, k), 2 * Scale), Scale)

LayerSizes(cfg) == <<cfg.inputSize>> \o cfg.hiddenLayers \o <<cfg.outputSize>>

\* LayerType with the last layer taken to be layerSizes.length
LayerTypeOffByOne(layerIndex, numLayers) ==
  IF layerIndex = 0 THEN "input"
  ELSE IF layerIndex = numLayers THEN "output" ELSE "hidden"

LayerType(layerIndex, numLayers) ==
  IF layerIndex = 0 THEN "input"
  ELSE IF layerIndex = numLayers - 1 THEN "output" ELSE "hidden"

NodeId(n) == "node-" \o ToString(n)

ConnId(fromId, toId) == "conn-" \o fromId \o "-" \o toId

\* LoopCount with the loop bound off by one: i <= layerSize
LoopCountInclusive(layerSize) == IF layerSize >= 0 THEN layerSize + 1 ELSE 0

\* for (let i = 0; i < layerSize; i++) runs max(0, layerSize) times
LoopCount(layerSize) == IF layerSize > 0 THEN layerSize ELSE 0

\* The nodes pushed for layers layerIndex, layerIndex + 1, ... after `acc`
RECURSIVE CreateNodes(_, _, _, _)
CreateNodes(layerSizes, layerIndex, acc, seed) ==
  IF layerIndex >= Len(layerSizes) THEN acc
  ELSE CreateNodes(layerSizes, layerIndex + 1,
         acc \o [i \in 1 .. LoopCount(layerSizes[layerIndex + 1]) |->
                  [id |-> NodeId(Len(acc) + i - 1),
                   x |-> layerIndex * 200 + 100,
                   y |-> (i - 1) * 80 + 100,
                   layer |-> layerIndex,
                   activation |-> 0,
                   bias |-> RandomWeight(seed, Len(acc) + i - 1),
                   type |-> LayerType(layerIndex, Len(layerSizes)),
                   error |-> Undefined]],
         seed)

\* NodesOfLayer with n.layer >= layer for n.layer === layer
NodesOfLayerAndAbove(ns, layer) == SelectSeq(ns, LAMBDA n : n.layer >= layer)

NodesOfLayer(ns, layer) == SelectSeq(ns, LAMBDA n : n.layer = layer)

\* The connections pushed for layers layer, layer + 1, ... after `acc`;
\* `drawn` random numbers were consumed by the biases
RECURSIVE CreateConnections(_, _, _, _, _, _)
CreateConnections(ns, numLayers, layer, acc, seed, drawn) ==
  IF layer >= numLayers - 1 THEN acc
  ELSE LET currentLayerNodes == NodesOfLayer(ns, layer)
           nextLayerNodes == NodesOfLayer(ns, layer + 1)
           width == Len(nextLayerNodes)
       IN CreateConnections(ns, numLayers, layer + 1,
            acc \o [j \in 1 .. Len(currentLayerNodes) * width |->
                     LET fromNode == currentLayerNodes[((j - 1) \div width) + 1]
                         toNode == nextLayerNodes[((j - 1) % width) + 1]
                     IN [id |-> ConnId(fromNode.id, toNode.id),
                         fromNodeId |-> fromNode.id,
                         toNodeId |-> toNode.id,
                         weight |-> RandomWeight(seed, drawn + Len(acc) + j - 1),
                         gradient |-> 0]],
            seed, drawn)

\* initializeNetwork(): the node and connection arrays of a fresh network
initializeNetwork(cfg, seed) ==
  LET layerSizes == LayerSizes(cfg)
      ns == CreateNodes(layerSizes, 0, <<>>, seed)
  IN [nodes |-> ns,
      connections |->
        CreateConnections(ns, Len(layerSizes), 0, <<>>, seed, Len(ns)),
      threw |-> FALSE]

----------------------------------------------------------------------------
(* Array helpers.                                                          *)

\* The indices 1 .. Len(array), in array order
Indices(array) == [i \in 1 .. Len(array) |-> i]

\* nodes.filter(n => n.type === type), as indices into nodes
IndicesOfType(ns, type) == SelectSeq(Indices(ns), LAMBDA i : ns[i].type = type)

\* nodes.filter(n => n.layer === layer), as indices into nodes
IndicesOfLayer(ns, layer) ==
  SelectSeq(Indices(ns), LAMBDA i : ns[i].layer = layer)

\* nodes.find(n => n.id === id): the index of the first such node, 0 if none
FindNode(ns, id) ==
  LET found == SelectSeq(Indices(ns), LAMBDA i : ns[i].id = id)
  IN IF found = <<>> THEN 0 ELSE found[1]

\* Math.max(...nodes.map(n => n.layer)); -Infinity (here -1) for no node
MaxLayer(ns) ==
  IF ns = <<>> THEN -1
  ELSE CHOOSE l \in {ns[i].layer : i \in 1 .. Len(ns)} :
         \A i \in 1 .. Len(ns) : ns[i].layer <= l

\* The concatenation of the sequences of a sequence of sequences
RECURSIVE Flatten(_)
Flatten(seqs) == IF seqs = <<>> THEN <<>> ELSE Head(seqs) \o Flatten(Tail(seqs))

----------------------------------------------------------------------------
(* Forward evaluator.  A pass works on a record m of the node array, the   *)
(* connection array, the log of the writes made so far and a flag telling  *)
(* that a TypeError was thrown (a find() that returned undefined).         *)

\* SetInputs that leaves an input node alone when inputs has no entry for it
SetInputsSkipMissing(ns, inputs) ==
  LET inputNodes == IndicesOfType(ns, "input")
  IN [i \in 1 .. Len(ns) |->
       IF ns[i].type = "input"
       THEN LET index == CHOOSE k \in 0 .. Len(inputNodes) - 1 :
                           inputNodes[k + 1] = i
            IN IF index < Len(inputs)
               THEN [ns[i] EXCEPT !.activation = OrZero(At(inputs, index))]
               ELSE ns[i]
       ELSE ns[i]]

\* inputNodes.forEach((node, index) => node.activation = inputs[index] || 0)
SetInputs(ns, inputs) ==
  LET inputNodes == IndicesOfType(ns, "input")
  IN [i \in 1 .. Len(ns) |->
       IF ns[i].type = "input"
       THEN LET index == CHOOSE k \in 0 .. Len(inputNodes) - 1 :
                           inputNodes[k + 1] = i
            IN [ns[i] EXCEPT !.activation = OrZero(At(inputs, index))]
       ELSE ns[i]]

\* ForwardOrder with the layer loop running from the last layer down to 1
ForwardOrderDescending(ns) ==
  Flatten([k \in 1 .. MaxLayer(ns) |->
            IndicesOfLayer(ns, MaxLayer(ns) + 1 - k)])

\* The node indices in the order the layer loop of forward visits them
ForwardOrder(ns) ==
  Flatten([layer \in 1 .. MaxLayer(ns) |-> IndicesOfLayer(ns, layer)])

\* incomingConnections.forEach(conn => sum += fromNode.activation * weight),
\* from the k-th incoming connection on; Undefined when a find() fails
RECURSIVE WeightedSum(_, _, _, _)
WeightedSum(ns, incomingConnections, k, sum) ==
  IF k > Len(incomingConnections) THEN sum
  ELSE LET conn == incomingConnections[k]
           fromNode == FindNode(ns, conn.fromNodeId)
       IN IF fromNode = 0 THEN Undefined
          ELSE WeightedSum(ns, incomingConnections, k + 1,
                 Add(sum, Mul(ns[fromNode].activation, conn.weight)))

\* ForwardNode with the sum started from the activation the previous pass
\* left on the node, added to the bias
ForwardNodeAccumulating(m, fn, i) ==
  LET node == m.nodes[i]
      incomingConnections ==
        SelectSeq(m.connections, LAMBDA c : c.toNodeId = node.id)
      sum == WeightedSum(m.nodes, incomingConnections, 1,
                         Add(node.bias, node.activation))
  IN IF sum = Undefined THEN [m EXCEPT !.threw = TRUE]
     ELSE [m EXCEPT !.nodes[i].activation = activate(fn, sum),
                    !.log = Append(@, [kind |-> "activation", id |-> node.id])]

\* The body of layerNodes.forEach in forward, for the node at index i
ForwardNode(m, fn, i) ==
  LET node == m.nodes[i]
      incomingConnections ==
        SelectSeq(m.connections, LAMBDA c : c.toNodeId = node.id)
      sum == WeightedSum(m.nodes, incomingConnections, 1, node.bias)
  IN IF sum = Undefined THEN [m EXCEPT !.threw = TRUE]
     ELSE [m EXCEPT !.nodes[i].activation = activate(fn, sum),
                    !.log = Append(@, [kind |-> "activation", id |-> node.id])]

RECURSIVE ForwardLoop(_, _, _, _)
ForwardLoop(m, fn, order, k) ==
  IF k > Len(order) \/ m.threw THEN m
  ELSE ForwardLoop(ForwardNode(m, fn, order[k]), fn, order, k + 1)

\* OutputActivations in the reverse of the creation order
OutputActivationsReversed(ns) ==
  LET outputNodes == IndicesOfType(ns, "output")
  IN [k \in 1 .. Len(outputNodes) |->
       ns[outputNodes[Len(outputNodes) + 1 - k]].activation]

\* The value forward returns: the activations of the output nodes
OutputActivations(ns) ==
  LET outputNodes == IndicesOfType(ns, "output")
  IN [k \in 1 .. Len(outputNodes) |-> ns[outputNodes[k]].activation]

\* forward(inputs) on the network (ns, conns) of configuration cfg
forward(cfg, ns, conns, inputs) ==
  LET start == [nodes |-> SetInputs(ns, inputs), connections |-> conns,
                log |-> <<>>, threw |-> FALSE]
      m == ForwardLoop(start, cfg.activationFunction,
                       ForwardOrder(start.nodes), 1)
  IN [nodes |-> m.nodes, connections |-> m.connections, log |-> m.log,
      threw |-> m.threw,
      ret |-> IF m.threw THEN <<>> ELSE OutputActivations(m.nodes)]

----------------------------------------------------------------------------
(* Backward trainer.                                                       *)

\* SetOutputErrors with the difference taken as activation - target
SetOutputErrorsFlipped(m, fn, expectedOutputs) ==
  LET outputNodes == IndicesOfType(m.nodes, "output")
  IN [m EXCEPT
       !.nodes = [i \in 1 .. Len(m.nodes) |->
         IF m.nodes[i].type = "output"
         THEN LET index == CHOOSE k \in 0 .. Len(outputNodes) - 1 :
                             outputNodes[k + 1] = i
                  error == Sub(m.nodes[i].activation,
                               At(expectedOutputs, index))
              IN [m.nodes[i] EXCEPT !.error =
                    Mul(error, activateDerivative(fn, m.nodes[i].activation))]
         ELSE m.nodes[i]],
       !.log = @ \o [k \in 1 .. Len(outputNodes) |->
                      [kind |-> "error", id |-> m.nodes[outputNodes[k]].id]]]

\* outputNodes.forEach((node, index) => node.error =
\*   (expectedOutputs[index] - node.activation) * derivative(node.activation))
SetOutputErrors(m, fn, expectedOutputs) ==
  LET outputNodes == IndicesOfType(m.nodes, "output")
  IN [m EXCEPT
       !.nodes = [i \in 1 .. Len(m.nodes) |->
         IF m.nodes[i].type = "output"
         THEN LET index == CHOOSE k \in 0 .. Len(outputNodes) - 1 :
                             outputNodes[k + 1] = i
                  error == Sub(At(expectedOutputs, index),
                               m.nodes[i].activation)
              IN [m.nodes[i] EXCEPT !.error =
                    Mul(error, activateDerivative(fn, m.nodes[i].activation))]
         ELSE m.nodes[i]],
       !.log = @ \o [k \in 1 .. Len(outputNodes) |->
                      [kind |-> "error", id |-> m.nodes[outputNodes[k]].id]]]

\* BackwardOrder with the layer loop running from layer 0 up to layers - 1
BackwardOrderAscending(ns) ==
  LET layers == MaxLayer(ns)
  IN Flatten([k \in 1 .. layers |->
               SelectSeq(IndicesOfLayer(ns, k - 1),
                         LAMBDA i : ns[i].type # "input")])

\* The node indices in the order the layer loop of backward computes their
\* errors: layers - 1 down to 0, input nodes skipped
BackwardOrder(ns) ==
  LET layers == MaxLayer(ns)
  IN Flatten([k \in 1 .. layers |->
               SelectSeq(IndicesOfLayer(ns, layers - k),
                         LAMBDA i : ns[i].type # "input")])

\* outgoingConnections.forEach(conn => errorSum += toNode.error * weight),
\* from the k-th outgoing connection on; Undefined when a find() fails
RECURSIVE ErrorSum(_, _, _, _)
ErrorSum(ns, outgoingConnections, k, errorSum) ==
  IF k > Len(outgoingConnections) THEN errorSum
  ELSE LET conn == outgoingConnections[k]
           toNode == FindNode(ns, conn.toNodeId)
       IN IF toNode = 0 THEN Undefined
          ELSE ErrorSum(ns, outgoingConnections, k + 1,
                 Add(errorSum, Mul(ns[toNode].error, conn.weight)))

\* BackwardNode that also adds the error to the bias of the node
BackwardNodeUpdatingBias(m, fn, i) ==
  LET node == m.nodes[i]
      outgoingConnections ==
        SelectSeq(m.connections, LAMBDA c : c.fromNodeId = node.id)
      errorSum == ErrorSum(m.nodes, outgoingConnections, 1, 0)
      error == Mul(errorSum, activateDerivative(fn, node.activation))
  IN IF errorSum = Undefined THEN [m EXCEPT !.threw = TRUE]
     ELSE [m EXCEPT !.nodes[i].error = error,
                    !.nodes[i].bias = Add(@, error),
                    !.log = Append(@, [kind |-> "error", id |-> node.id])]

\* The body of layerNodes.forEach in backward, for the node at index i
BackwardNode(m, fn, i) ==
  LET node == m.nodes[i]
      outgoingConnections ==
        SelectSeq(m.connections, LAMBDA c : c.fromNodeId = node.id)
      errorSum == ErrorSum(m.nodes, outgoingConnections, 1, 0)
  IN IF errorSum = Undefined THEN [m EXCEPT !.threw = TRUE]
     ELSE [m EXCEPT !.nodes[i].error =
                      Mul(errorSum, activateDerivative(fn, node.activation)),
                    !.log = Append(@, [kind |-> "error", id |-> node.id])]

RECURSIVE BackwardLoop(_, _, _, _)
BackwardLoop(m, fn, order, k) ==
  IF k > Len(order) \/ m.threw THEN m
  ELSE BackwardLoop(BackwardNode(m, fn, order[k]), fn, order, k + 1)

\* UpdateConnection with weight -= learningRate * gradient
UpdateConnectionDescent(m, learningRate, j) ==
  LET conn == m.connections[j]
      fromNode == FindNode(m.nodes, conn.fromNodeId)
      toNode == FindNode(m.nodes, conn.toNodeId)
  IN IF fromNode = 0 \/ toNode = 0 THEN [m EXCEPT !.threw = TRUE]
     ELSE LET gradient == Mul(m.nodes[toNode].error,
                              m.nodes[fromNode].activation)
          IN [m EXCEPT !.connections[j].gradient = gradient,
                       !.connections[j].weight =
                          Sub(conn.weight, Mul(learningRate, gradient)),
                       !.log = Append(@, [kind |-> "weight", id |-> conn.id])]

\* The body of connections.forEach in backward, for the connection at index j
UpdateConnection(m, learningRate, j) ==
  LET conn == m.connections[j]
      fromNode == FindNode(m.nodes, conn.fromNodeId)
      toNode == FindNode(m.nodes, conn.toNodeId)
  IN IF fromNode = 0 \/ toNode = 0 THEN [m EXCEPT !.threw = TRUE]
     ELSE LET gradient == Mul(m.nodes[toNode].error,
                              m.nodes[fromNode].activation)
          IN [m EXCEPT !.connections[j].gradient = gradient,
                       !.connections[j].weight =
                          Add(conn.weight, Mul(learningRate, gradient)),
                       !.log = Append(@, [kind |-> "weight", id |-> conn.id])]

RECURSIVE UpdateLoop(_, _, _)
UpdateLoop(m, learningRate, j) ==
  IF j > Len(m.connections) \/ m.threw THEN m
  ELSE UpdateLoop(UpdateConnection(m, learningRate, j), learningRate, j + 1)

\* backward(expectedOutputs) on the network (ns, conns) of configuration cfg
backward(cfg, ns, conns, expectedOutputs) ==
  LET fn == cfg.activationFunction
      start == [nodes |-> ns, connections |-> conns, log |-> <<>>,
                threw |-> FALSE]
      withOutputErrors == SetOutputErrors(start, fn, expectedOutputs)
      withErrors == BackwardLoop(withOutputErrors, fn,
                                 BackwardOrder(withOutputErrors.nodes), 1)
      m == UpdateLoop(withErrors, cfg.learningRate, 1)
  IN [nodes |-> m.nodes, connections |-> m.connections, log |-> m.log,
      threw |-> m.threw, ret |-> <<>>]

----------------------------------------------------------------------------
(* Loss.                                                                   *)

\* predictions.reduce((sum, pred, i) => sum + Math.pow(pred - targets[i], 2),
\* 0), from the 0-based index i on
RECURSIVE SquaredErrorSum(_, _, _, _)
SquaredErrorSum(predictions, targets, i, sum) ==
  IF i >= Len(predictions) THEN sum
  ELSE LET d == Sub(predictions[i + 1], At(targets, i))
       IN SquaredErrorSum(predictions, targets, i + 1, Add(sum, Mul(d, d)))

\* a / n for a count n: 0 / 0 is NaN (a sum over no element is 0)
DivideByCount(a, n) ==
  IF ToNumber(a) = NaN \/ n = 0 THEN NaN ELSE RoundDiv(a, n)

\* calculateLoss without the division by predictions.length
calculateLossUndivided(predictions, targets) ==
  [ret |-> SquaredErrorSum(predictions, targets, 0, 0), threw |-> FALSE]

\* calculateLoss(predictions, targets): the value returned, and whether the
\* call raised
calculateLoss(predictions, targets) ==
  [ret |-> DivideByCount(SquaredErrorSum(predictions, targets, 0, 0),
                         Len(predictions)),
   threw |-> FALSE]

----------------------------------------------------------------------------
(* The engine as a state machine: a network instance is constructed from   *)
(* a configuration, then forward and backward are called on it.            *)

\* The first n entries of the vector whose entries alternate first, other
Alternating(first, other, n) ==
  [k \in 1 .. n |-> IF k % 2 = 1 THEN first ELSE other]

\* The inputs vectors passed to forward: 1, -1, 1, ... cut at 0 .. MaxVec
InputVectors == {Alternating(Scale, -Scale, n) : n \in 0 .. MaxVec}

\* The targets vectors passed to backward: 1, 0, 1, ... and 0, 1, 0, ...
\* cut at 0 .. MaxVec
TargetVectors ==
  {Alternating(Scale, 0, n) : n \in 0 .. MaxVec}
    \cup {Alternating(0, Scale, n) : n \in 0 .. MaxVec}

\* The configurations the control panel can build: the hidden-layer text box
\* accepts any integers (parseInt), 0 included; the input and output widths
\* are positive
HiddenLayerChoices == UNION {[1 .. n -> 0 .. MaxWidth] : n \in 0 .. MaxHidden}

\* 0.25 and 1 in units of 1 / Scale (the slider ranges over 0.001 .. 1)
LearningRates == {1, Scale}

\* "linear" stands for a selector that is none of the three names
ActivationFunctions == {"sigmoid", "relu", "tanh", "linear"}

Configs ==
  [inputSize : 1 .. MaxWidth, hiddenLayers : HiddenLayerChoices,
   outputSize : 1 .. MaxWidth, learningRate : LearningRates,
   activationFunction : ActivationFunctions]

\* The engine specification makes no calculateLoss call and mounts no
\* application
NoLossCall ==
  [predictions |-> <<>>, targets |-> <<>>, ret |-> 0, threw |-> FALSE,
   called |-> FALSE]
NoApp == [mounted |-> FALSE]

\* new NeuralNetwork(cfg), the random sequence being `seed`
Constructed(cfg, seed) ==
  LET built == initializeNetwork(cfg, seed)
  IN /\ config' = cfg
     /\ nodes' = built.nodes
     /\ connections' = built.connections
     /\ hist' = [op |-> "construct", arg |-> <<>>, ret |-> <<>>,
                 log |-> <<>>, threw |-> built.threw, prevOp |-> "none",
                 prevArg |-> <<>>, prevRet |-> <<>>,
                 beforeNodes |-> <<>>, beforeConnections |-> <<>>,
                 calls |-> 0]
     /\ UNCHANGED <<loss, app>>

Init ==
  \E cfg \in Configs, seed \in 0 .. NumSeeds - 1 :
    LET built == initializeNetwork(cfg, seed)
    IN /\ config = cfg
       /\ nodes = built.nodes
       /\ connections = built.connections
       /\ hist = [op |-> "construct", arg |-> <<>>, ret |-> <<>>,
                  log |-> <<>>, threw |-> built.threw, prevOp |-> "none",
                  prevArg |-> <<>>, prevRet |-> <<>>,
                  beforeNodes |-> <<>>, beforeConnections |-> <<>>,
                  calls |-> 0]
       /\ loss = NoLossCall
       /\ app = NoApp

\* handleReset: the application replaces the network by a new one built from
\* the current configuration
Construct == \E seed \in 0 .. NumSeeds - 1 : Constructed(config, seed)

Called(op, arg, result) ==
  /\ nodes' = result.nodes
  /\ connections' = result.connections
  /\ hist' = [op |-> op, arg |-> arg, ret |-> result.ret, log |-> result.log,
              threw |-> result.threw, prevOp |-> hist.op,
              prevArg |-> hist.arg, prevRet |-> hist.ret,
              beforeNodes |-> nodes, beforeConnections |-> connections,
              calls |-> hist.calls + 1]
  /\ UNCHANGED <<config, loss, app>>

Forward ==
  /\ hist.calls < MaxCalls
  /\ \E inputs \in InputVectors :
       Called("forward", inputs, forward(config, nodes, connections, inputs))

Backward ==
  /\ hist.calls < MaxCalls
  /\ \E targets \in TargetVectors :
       Called("backward", targets,
              backward(config, nodes, connections, targets))

Next == Construct \/ Forward \/ Backward

Spec == Init /\ [][Next]_vars

\* Every number the bounded model reaches is far from the two sentinels
ValuesInRange ==
  /\ \A i \in 1 .. Len(nodes) :
       \A v \in {nodes[i].activation, nodes[i].bias, nodes[i].error} :
         IsNumber(v) => v \in -10000 .. 10000
  /\ \A j \in 1 .. Len(connections) :
       \A v \in {connections[j].weight, connections[j].gradient} :
         IsNumber(v) => v \in -10000 .. 10000

----------------------------------------------------------------------------
(* The loss function on its own: a call of calculateLoss is drawn, then    *)
(* made.  The method reads no field of the instance it is called on.       *)

\* The configuration the application starts with.  The rate 0.1 is not a
\* multiple of 1 / Scale; the model takes the smallest positive rate.
InitialConfig ==
  [inputSize |-> 2, hiddenLayers |-> <<4, 3>>, outputSize |-> 1,
   learningRate |-> 1, activationFunction |-> "sigmoid"]

\* Vectors forward can return: one activation per output neuron
PredictionVectors == UNION {[1 .. n -> -Scale .. Scale] : n \in 1 .. MaxVec}

\* Vectors a sample can hold as its outputs, of any length
LossTargetVectors == UNION {[1 .. n -> {0, 2, Scale}] : n \in 0 .. MaxVec}

InitLoss ==
  /\ \E predictions \in PredictionVectors, targets \in LossTargetVectors :
       loss = [predictions |-> predictions, targets |-> targets, ret |-> 0,
               threw |-> FALSE, called |-> FALSE]
  /\ LET built == initializeNetwork(InitialConfig, 0)
     IN /\ config = InitialConfig
        /\ nodes = built.nodes
        /\ connections = built.connections
        /\ hist = [op |-> "construct", arg |-> <<>>, ret |-> <<>>,
                   log |-> <<>>, threw |-> built.threw, prevOp |-> "none",
                   prevArg |-> <<>>, prevRet |-> <<>>,
                   beforeNodes |-> <<>>, beforeConnections |-> <<>>,
                   calls |-> 0]
  /\ app = NoApp

CalculateLoss ==
  /\ ~loss.called
  /\ LET result == calculateLoss(loss.predictions, loss.targets)
     IN loss' = [loss EXCEPT !.ret = result.ret, !.threw = result.threw,
                             !.called = TRUE]
  /\ UNCHANGED <<config, nodes, connections, hist, app>>

NextLoss == CalculateLoss

SpecLoss == InitLoss /\ [][NextLoss]_vars

----------------------------------------------------------------------------
(* The application (src/src/App.tsx).  Its state is the record app.  A     *)
(* network instance holds references to its neuron and connection records, *)
(* which live in the heap: two instances that held the same reference      *)
(* would see each other's writes.  An action is one event handler together *)
(* with the renders and effects it causes.                                 *)

\* Allocate that hands out the cells at the bottom of the heap again
AllocateReusing(heap, records) ==
  [heap |-> [a \in 1 .. (IF Len(heap) > Len(records) THEN Len(heap)
                                                     ELSE Len(records)) |->
              IF a <= Len(records) THEN records[a] ELSE heap[a]],
   refs |-> [k \in 1 .. Len(records) |-> k]]

\* The object literals of initializeNetwork: every record is a new object
Allocate(heap, records) ==
  [heap |-> heap \o records,
   refs |-> [k \in 1 .. Len(records) |-> Len(heap) + k]]

\* The records an array of references holds
Deref(heap, refs) == [k \in 1 .. Len(refs) |-> heap[refs[k]]]

\* The heap after the records reached through refs were assigned `records`
Store(heap, refs, records) ==
  [a \in 1 .. Len(heap) |->
    IF \E k \in 1 .. Len(refs) : refs[k] = a
    THEN records[CHOOSE k \in 1 .. Len(refs) : refs[k] = a]
    ELSE heap[a]]

\* new NeuralNetwork(cfg) in the application a: the instance is added to the
\* instances built so far.  Math.random() is one sequence for the whole run:
\* each instance draws from where the sequence of the run has got to.
Build(a, cfg) ==
  LET built == initializeNetwork(cfg, a.seed + Len(a.networks))
      cells == Allocate(a.heap, built.nodes \o built.connections)
      instance ==
        [config |-> cfg,
         nodes |-> SubSeq(cells.refs, 1, Len(built.nodes)),
         connections |-> SubSeq(cells.refs, Len(built.nodes) + 1,
                                Len(cells.refs))]
  IN [a EXCEPT !.heap = cells.heap, !.networks = Append(@, instance)]

\* a > b in JavaScript: false when a is NaN or undefined
GreaterThan(a, b) == IsNumber(a) /\ a > b

\* A record of the trace of engine calls a training step makes
EngineCall(op, network, sample, inputs, targets, predictions, value) ==
  [op |-> op, network |-> network, sample |-> sample, inputs |-> inputs,
   targets |-> targets, predictions |-> predictions, loss |-> value]

\* TrainSample with the backward pass made before the forward pass
TrainSampleBackwardFirst(m, cfg, id, data, k) ==
  LET sample == data[k]
      bwd == backward(cfg, m.nodes, m.connections, sample.outputs)
      fwd == forward(cfg, bwd.nodes, bwd.connections, sample.inputs)
      lossCall == calculateLoss(fwd.ret, sample.outputs)
      predicted == IF GreaterThan(At(fwd.ret, 0), Scale \div 2) THEN 1 ELSE 0
      actual ==
        IF GreaterThan(At(sample.outputs, 0), Scale \div 2) THEN 1 ELSE 0
  IN [nodes |-> fwd.nodes, connections |-> fwd.connections,
      threw |-> bwd.threw \/ fwd.threw,
      totalLoss |-> Add(m.totalLoss, lossCall.ret),
      correctPredictions |->
        m.correctPredictions
          + (IF Len(sample.outputs) = 1 /\ predicted = actual THEN 1 ELSE 0),
      calls |-> m.calls \o
        << EngineCall("backward", id, k, <<>>, sample.outputs, <<>>, 0),
           EngineCall("forward", id, k, sample.inputs, <<>>, fwd.ret, 0),
           EngineCall("calculateLoss", id, k, <<>>, sample.outputs, fwd.ret,
                      lossCall.ret) >>]

\* The body of trainingData.forEach in trainStep, for the sample at index k
\* of data, on the network instance id of configuration cfg
TrainSample(m, cfg, id, data, k) ==
  LET sample == data[k]
      fwd == forward(cfg, m.nodes, m.connections, sample.inputs)
      bwd == backward(cfg, fwd.nodes, fwd.connections, sample.outputs)
      lossCall == calculateLoss(fwd.ret, sample.outputs)
      predicted == IF GreaterThan(At(fwd.ret, 0), Scale \div 2) THEN 1 ELSE 0
      actual ==
        IF GreaterThan(At(sample.outputs, 0), Scale \div 2) THEN 1 ELSE 0
  IN [nodes |-> bwd.nodes, connections |-> bwd.connections,
      threw |-> fwd.threw \/ bwd.threw,
      totalLoss |-> Add(m.totalLoss, lossCall.ret),
      correctPredictions |->
        m.correctPredictions
          + (IF Len(sample.outputs) = 1 /\ predicted = actual THEN 1 ELSE 0),
      calls |-> m.calls \o
        << EngineCall("forward", id, k, sample.inputs, <<>>, fwd.ret, 0),
           EngineCall("backward", id, k, <<>>, sample.outputs, <<>>, 0),
           EngineCall("calculateLoss", id, k, <<>>, sample.outputs, fwd.ret,
                      lossCall.ret) >>]

\* trainingData.forEach: an exception thrown by a pass ends the sweep
RECURSIVE TrainSamples(_, _, _, _, _)
TrainSamples(m, cfg, id, data, k) ==
  IF k > Len(data) \/ m.threw THEN m
  ELSE TrainSamples(TrainSample(m, cfg, id, data, k), cfg, id, data, k + 1)

\* setMetrics that replaces the list by the new record
AppendMetricReplacing(metrics, newMetric) == <<newMetric>>

\* setMetrics(prev => [...prev, newMetric])
AppendMetric(metrics, newMetric) == Append(metrics, newMetric)

\* The trainStep callback of the current render: it closes over the network,
\* the samples and the epoch of that render
CurrentTrainStep(a) ==
  [network |-> a.network, trainingData |-> a.trainingData,
   currentEpoch |-> a.currentEpoch]

NoTimer ==
  [set |-> FALSE,
   trainStep |-> [network |-> 0, trainingData |-> <<>>, currentEpoch |-> 0]]

\* The sweep of trainStep over the samples of `closure`, on the records of
\* the instance it closes over
Sweep(a, closure) ==
  LET instance == a.networks[closure.network]
  IN TrainSamples([nodes |-> Deref(a.heap, instance.nodes),
                   connections |-> Deref(a.heap, instance.connections),
                   threw |-> FALSE, totalLoss |-> 0,
                   correctPredictions |-> 0, calls |-> <<>>],
                  instance.config, closure.network, closure.trainingData, 1)

\* The application after the sweep `done`: the records of the instance hold
\* what the passes wrote and, unless a pass threw, the state setters ran
AfterSweep(a, closure, done) ==
  LET instance == a.networks[closure.network]
      avgLoss == DivideByCount(done.totalLoss, Len(closure.trainingData))
      accuracy ==
        RoundDiv(done.correctPredictions * 100 * Scale,
                 Len(closure.trainingData))
      newMetric ==
        [epoch |-> closure.currentEpoch + 1, loss |-> avgLoss,
         accuracy |-> accuracy, timestamp |-> a.clock]
      trained ==
        [a EXCEPT
           !.heap = Store(@, instance.nodes \o instance.connections,
                          done.nodes \o done.connections),
           !.calls = done.calls]
  IN IF done.threw THEN trained
     ELSE [trained EXCEPT
             !.currentLoss = avgLoss,
             !.currentAccuracy = accuracy,
             !.metrics = AppendMetric(@, newMetric),
             !.currentEpoch = @ + 1,
             !.clock = @ + 1]

\* trainStep(), the callback being `closure`, in the application a
trainStep(a, closure) ==
  IF closure.trainingData = <<>> THEN [a EXCEPT !.calls = <<>>]
  ELSE CHOOSE after \in {AfterSweep(a, closure, done) :
                           done \in {Sweep(a, closure)}} : TRUE

\* The effect on [config]: a new network replaces the current one, the
\* metrics are emptied and the epoch counter restarts
ConfigEffect(a) ==
  LET b == Build(a, a.config)
  IN [b EXCEPT !.network = Len(b.networks), !.metrics = <<>>,
               !.currentEpoch = 0]

\* The effect on [isTraining, trainingSpeed, trainingData]: the interval of
\* the previous run is cleared and, while training on a non-empty sample
\* set, a new one is set that calls the trainStep of this render
TrainingLoopEffect(a) ==
  [a EXCEPT !.timer =
     IF a.isTraining /\ a.trainingData # <<>>
     THEN [set |-> TRUE, trainStep |-> CurrentTrainStep(a)]
     ELSE NoTimer]

\* loadDefaultDataset for 2 inputs and 1 output
XorDataset ==
  << [inputs |-> <<0, 0>>, outputs |-> <<0>>],
     [inputs |-> <<0, Scale>>, outputs |-> <<Scale>>],
     [inputs |-> <<Scale, 0>>, outputs |-> <<Scale>>],
     [inputs |-> <<Scale, Scale>>, outputs |-> <<0>>] >>

\* The other branch of loadDefaultDataset: ten samples of Math.random values
RandomDataset(seed, inputSize, outputSize) ==
  [i \in 1 .. 10 |->
     [inputs |-> [k \in 1 .. inputSize |->
                    MathRandom(seed, (i - 1) * (inputSize + outputSize) + k)],
      outputs |-> [k \in 1 .. outputSize |->
                    MathRandom(seed, (i - 1) * (inputSize + outputSize)
                                     + inputSize + k)]]]

loadDefaultDataset(seed, inputSize, outputSize) ==
  IF inputSize = 2 /\ outputSize = 1
  THEN XorDataset
  ELSE RandomDataset(seed, inputSize, outputSize)

\* A file whose JSON is an array of one sample with vectors shorter than the
\* layers
ImportedDataset == << [inputs |-> <<Scale>>, outputs |-> <<>>] >>

\* The JSON values a chosen file parses to: arrays, and one that is no array
ImportedFiles ==
  {[isArray |-> TRUE, data |-> ImportedDataset],
   [isArray |-> TRUE, data |-> <<>>],
   [isArray |-> FALSE, data |-> <<>>]}

\* What the comma-separated fields of the add form hold after parseFloat:
\* numbers, and NaN for an entry that is no number
TypedInputs == {<<Scale, 0>>, <<Scale, NaN, 0>>, <<Scale>>}
TypedOutputs == {<<Scale>>, <<NaN>>}

\* .filter(n => !isNaN(n))
FilterNumbers(parsed) == SelectSeq(parsed, IsNumber)

\* .filter((_, i) => i !== index), index counted from 1
RemoveAt(data, index) ==
  [k \in 1 .. Len(data) - 1 |-> IF k < index THEN data[k] ELSE data[k + 1]]

\* 1x and 2x
TrainingSpeeds == {Scale, 2 * Scale}

\* The configurations one edit of the control panel makes of cfg
ConfigEdits(cfg) ==
  {[cfg EXCEPT !.hiddenLayers = <<2>>],
   [cfg EXCEPT !.learningRate = Scale],
   [cfg EXCEPT !.activationFunction = "relu"]}

\* The state before the first render: useState's initial values, the network
\* among them
Unmounted(seed) ==
  LET blank ==
        [config |-> InitialConfig, network |-> 1, networks |-> <<>>,
         heap |-> <<>>, trainingData |-> <<>>, metrics |-> <<>>,
         currentLoss |-> 0, currentAccuracy |-> 0, isTraining |-> FALSE,
         currentEpoch |-> 0, trainingSpeed |-> Scale, timer |-> NoTimer,
         clock |-> 0,
         calls |-> <<>>, seed |-> seed, mounted |-> TRUE]
  IN Build(blank, InitialConfig)

\* The state after mounting: both effects have run once
InitApp ==
  /\ \E seed \in 0 .. NumSeeds - 1 :
       app = TrainingLoopEffect(ConfigEffect(Unmounted(seed)))
  /\ LET built == initializeNetwork(InitialConfig, 0)
     IN /\ config = InitialConfig
        /\ nodes = built.nodes
        /\ connections = built.connections
        /\ hist = [op |-> "construct", arg |-> <<>>, ret |-> <<>>,
                   log |-> <<>>, threw |-> built.threw, prevOp |-> "none",
                   prevArg |-> <<>>, prevRet |-> <<>>,
                   beforeNodes |-> <<>>, beforeConnections |-> <<>>,
                   calls |-> 0]
  /\ loss = NoLossCall

\* A handler ran and left the application in state a
Handled(a) ==
  /\ app' = a
  /\ UNCHANGED <<config, nodes, connections, hist, loss>>

\* The Start / Pause button
ToggleTraining ==
  Handled(TrainingLoopEffect([app EXCEPT !.isTraining = ~@, !.calls = <<>>]))

\* The speed slider
ChangeSpeed ==
  \E speed \in TrainingSpeeds \ {app.trainingSpeed} :
    Handled(TrainingLoopEffect([app EXCEPT !.trainingSpeed = speed,
                                           !.calls = <<>>]))

\* onDataChange = setTrainingData, then the effect on [.., trainingData]
onDataChange(data) ==
  Handled(TrainingLoopEffect([app EXCEPT !.trainingData = data,
                                         !.calls = <<>>]))

\* The Add Data Point button
addDataPoint ==
  /\ Len(app.trainingData) < MaxSamples
  /\ \E typedInputs \in TypedInputs, typedOutputs \in TypedOutputs :
       LET inputs == FilterNumbers(typedInputs)
           outputs == FilterNumbers(typedOutputs)
       IN /\ Len(inputs) = app.config.inputSize
          /\ Len(outputs) = app.config.outputSize
          /\ onDataChange(Append(app.trainingData,
                                 [inputs |-> inputs, outputs |-> outputs]))

\* The remove button of one sample
removeDataPoint ==
  \E index \in 1 .. Len(app.trainingData) :
    /\ index <= MaxIndex
    /\ onDataChange(RemoveAt(app.trainingData, index))

\* The Load Sample button
LoadSample ==
  onDataChange(loadDefaultDataset(app.seed, app.config.inputSize,
                                  app.config.outputSize))

\* The file input: reader.onload
importDataset ==
  \E file \in ImportedFiles :
    /\ file.isArray
    /\ onDataChange(file.data)

\* The Clear All button, rendered while there are samples
ClearAll ==
  /\ app.trainingData # <<>>
  /\ onDataChange(<<>>)

\* handleConfigChange, then the effect on [config]
ChangeConfig ==
  /\ Len(app.networks) < MaxBuilds
  /\ \E cfg \in ConfigEdits(app.config) :
       Handled(ConfigEffect([app EXCEPT !.config = cfg, !.calls = <<>>]))

\* handleReset
Reset ==
  /\ Len(app.networks) < MaxBuilds
  /\ LET b == Build(app, app.config)
     IN Handled(TrainingLoopEffect(
                  [b EXCEPT !.network = Len(b.networks), !.metrics = <<>>,
                            !.currentLoss = 0, !.currentAccuracy = 0,
                            !.currentEpoch = 0, !.isTraining = FALSE,
                            !.calls = <<>>]))

\* handleStep: the Step button is disabled while training
Step ==
  /\ ~app.isTraining
  /\ app.clock < MaxSteps
  /\ Handled(IF app.trainingData # <<>>
             THEN trainStep(app, CurrentTrainStep(app))
             ELSE [app EXCEPT !.calls = <<>>])

\* The interval fires: it calls the trainStep it was set with
Tick ==
  /\ app.timer.set
  /\ app.clock < MaxSteps
  /\ Handled(trainStep(app, app.timer.trainStep))

NextApp ==
  \/ ToggleTraining
  \/ ChangeSpeed
  \/ addDataPoint
  \/ removeDataPoint
  \/ LoadSample
  \/ importDataset
  \/ ClearAll
  \/ ChangeConfig
  \/ Reset
  \/ Step
  \/ Tick

SpecApp == InitApp /\ [][NextApp]_vars

----------------------------------------------------------------------------
(* Vocabulary of the properties.                                           *)

\* The sum of the numbers of a sequence
RECURSIVE SeqSum(_)
SeqSum(terms) ==
  IF terms = <<>> THEN 0 ELSE Add(Head(terms), SeqSum(Tail(terms)))

NodeIndices == 1 .. Len(nodes)
ConnIndices == 1 .. Len(connections)

\* The node a connection starts from / ends at, as an index into nodes
Source(j) == FindNode(nodes, connections[j].fromNodeId)
Destination(j) == FindNode(nodes, connections[j].toNodeId)

Incoming(i) ==
  SelectSeq(Indices(connections),
            LAMBDA j : connections[j].toNodeId = nodes[i].id)
Outgoing(i) ==
  SelectSeq(Indices(connections),
            LAMBDA j : connections[j].fromNodeId = nodes[i].id)

\* The positions of the log of the last call that record a write of `kind`
\* to the node or connection `id`
LogPositions(kind, id) ==
  {k \in 1 .. Len(hist.log) : hist.log[k] = [kind |-> kind, id |-> id]}

\* The layer of the node a log entry names
LoggedLayer(k) == nodes[FindNode(nodes, hist.log[k].id)].layer

\* Position in creation order (0-based) of node i among the nodes of its type
RankInType(i) ==
  Cardinality({h \in 1 .. i - 1 : nodes[h].type = nodes[i].type})

AllWidthsPositive ==
  \A k \in 1 .. Len(LayerSizes(config)) : LayerSizes(config)[k] >= 1

NoNaNBefore ==
  /\ \A i \in 1 .. Len(hist.beforeNodes) :
       /\ hist.beforeNodes[i].activation # NaN
       /\ hist.beforeNodes[i].error # NaN
  /\ \A j \in 1 .. Len(hist.beforeConnections) :
       hist.beforeConnections[j].weight # NaN

----------------------------------------------------------------------------
(* C1.  After forward(inputs) every non-input neuron's activation is       *)
(* activate(bias + sum over its incoming connections of source activation  *)
(* times weight), the source activations being those of this same pass:    *)
(* the pass writes every non-input neuron exactly once, in increasing      *)
(* layer order starting at layer 1.                                        *)

C1_ForwardComputesActivations ==
  hist.op = "forward" =>
    /\ \A i \in NodeIndices :
         nodes[i].type # "input" =>
           /\ nodes[i].activation =
                activate(config.activationFunction,
                  Add(nodes[i].bias,
                      SeqSum([k \in 1 .. Len(Incoming(i)) |->
                               Mul(nodes[Source(Incoming(i)[k])].activation,
                                   connections[Incoming(i)[k]].weight)])))
           /\ Cardinality(LogPositions("activation", nodes[i].id)) = 1
    /\ \A k \in 1 .. Len(hist.log) :
         /\ hist.log[k].kind = "activation"
         /\ LoggedLayer(k) >= 1
         /\ k > 1 => LoggedLayer(k - 1) <= LoggedLayer(k)

\* A second forward pass that changes a hidden neuron's activation and the
\* activation of an output neuron fed by it
C1_Witness ==
  /\ hist.op = "forward" /\ hist.prevOp = "forward"
  /\ \E j \in ConnIndices :
       /\ nodes[Source(j)].type = "hidden"
       /\ nodes[Source(j)].activation
            # hist.beforeNodes[Source(j)].activation
       /\ nodes[Destination(j)].activation
            # hist.beforeNodes[Destination(j)].activation
       /\ connections[j].weight # 0

----------------------------------------------------------------------------
(* C2.  After backward(targets) every connection's gradient is the error   *)
(* of its destination neuron times the activation of its source neuron,    *)
(* and its weight is the weight before the call plus learningRate times    *)
(* the gradient; each connection is updated exactly once, after the error  *)
(* of every non-input neuron was written.                                  *)

C2_BackwardUpdatesWeights ==
  hist.op = "backward" =>
    /\ \A j \in ConnIndices :
         /\ connections[j].gradient =
              Mul(nodes[Destination(j)].error, nodes[Source(j)].activation)
         /\ connections[j].weight =
              Add(hist.beforeConnections[j].weight,
                  Mul(config.learningRate, connections[j].gradient))
         /\ Cardinality(LogPositions("weight", connections[j].id)) = 1
    /\ \A i \in NodeIndices :
         nodes[i].type # "input" => LogPositions("error", nodes[i].id) # {}
    /\ \A k, l \in 1 .. Len(hist.log) :
         hist.log[k].kind = "error" /\ hist.log[l].kind = "weight" => k < l

\* A backward pass after a forward pass that changes a weight into a hidden
\* neuron and a weight into an output neuron
C2_Witness ==
  /\ hist.op = "backward" /\ hist.prevOp = "forward"
  /\ \E j, l \in ConnIndices :
       /\ nodes[Destination(j)].type = "hidden"
       /\ nodes[Destination(l)].type = "output"
       /\ \A c \in {j, l} :
            /\ IsNumber(connections[c].weight)
            /\ connections[c].gradient # 0
            /\ connections[c].weight # hist.beforeConnections[c].weight

----------------------------------------------------------------------------
(* C3.  A backward pass after a forward pass changes the bias of every     *)
(* non-input neuron whose error is not zero.                               *)

C3_BackwardMutatesBias ==
  hist.op = "backward" /\ hist.prevOp = "forward" =>
    \A i \in NodeIndices :
      nodes[i].type # "input" /\ IsNumber(nodes[i].error)
        /\ nodes[i].error # 0
      => nodes[i].bias # hist.beforeNodes[i].bias

----------------------------------------------------------------------------
(* C4.  After backward(targets) the error of the i-th output neuron is     *)
(* (targets[i] - activation) * activateDerivative(activation), the         *)
(* activation being the one the neuron had when backward was called.       *)

C4_OutputError ==
  hist.op = "backward" =>
    \A i \in NodeIndices :
      nodes[i].type = "output" =>
        nodes[i].error =
          Mul(Sub(At(hist.arg, RankInType(i)), hist.beforeNodes[i].activation),
              activateDerivative(config.activationFunction,
                                 hist.beforeNodes[i].activation))

\* A backward pass after a forward pass that gives the second output neuron
\* a non-zero error from a supplied target
C4_Witness ==
  /\ hist.op = "backward" /\ hist.prevOp = "forward"
  /\ \E i \in NodeIndices :
       /\ nodes[i].type = "output" /\ RankInType(i) = 1
       /\ Len(hist.arg) = 2
       /\ IsNumber(nodes[i].error) /\ nodes[i].error # 0
       /\ nodes[i].activation # 0

----------------------------------------------------------------------------
(* C5.  After backward(targets) the error of every hidden neuron is        *)
(* activateDerivative(activation) times the sum over its outgoing          *)
(* connections of the destination's error of this same call times the      *)
(* weight the connection had before the call: hidden errors are written    *)
(* in decreasing layer order, each after the errors of all its             *)
(* destinations.                                                           *)

C5_HiddenErrorOrder ==
  hist.op = "backward" =>
    /\ \A i \in NodeIndices :
         nodes[i].type = "hidden" =>
           /\ nodes[i].error =
                Mul(SeqSum([k \in 1 .. Len(Outgoing(i)) |->
                             Mul(nodes[Destination(Outgoing(i)[k])].error,
                                 hist.beforeConnections[Outgoing(i)[k]].weight)]),
                    activateDerivative(config.activationFunction,
                                       nodes[i].activation))
           /\ Cardinality(LogPositions("error", nodes[i].id)) = 1
           /\ \A k \in 1 .. Len(Outgoing(i)) :
                \E d \in LogPositions("error",
                           nodes[Destination(Outgoing(i)[k])].id) :
                  \A h \in LogPositions("error", nodes[i].id) : d < h
    /\ \A k \in 2 .. Len(hist.log) :
         hist.log[k].kind = "error" => LoggedLayer(k) <= LoggedLayer(k - 1)

\* A backward pass after a forward pass, on a network of two hidden layers,
\* that gives a first-hidden-layer neuron a non-zero error through a
\* connection whose weight the pass changes
C5_Witness ==
  /\ hist.op = "backward" /\ hist.prevOp = "forward"
  /\ \E j \in ConnIndices :
       /\ nodes[Source(j)].type = "hidden"
       /\ nodes[Destination(j)].type = "hidden"
       /\ IsNumber(nodes[Source(j)].error) /\ nodes[Source(j)].error # 0
       /\ IsNumber(nodes[Destination(j)].error)
       /\ nodes[Destination(j)].error # 0
       /\ IsNumber(connections[j].weight)
       /\ connections[j].weight # hist.beforeConnections[j].weight

----------------------------------------------------------------------------
(* C6.  A network built from widths that are all at least 1 has            *)
(* I + sum(Hj) + O neurons and I*H1 + H1*H2 + ... + Hk*O connections.      *)

C6_TopologySize ==
  AllWidthsPositive =>
    LET sizes == LayerSizes(config)
    IN /\ Len(nodes) = SeqSum(sizes)
       /\ Len(connections) =
            SeqSum([k \in 1 .. Len(sizes) - 1 |-> sizes[k] * sizes[k + 1]])

\* A freshly built network of two hidden layers whose widths are not all equal
C6_Witness ==
  /\ hist.op = "construct"
  /\ AllWidthsPositive
  /\ Len(config.hiddenLayers) = 2
  /\ config.hiddenLayers[1] # config.hiddenLayers[2]
  /\ config.inputSize # config.outputSize

----------------------------------------------------------------------------
(* C7.  In every state a connection from neuron a to neuron b exists iff   *)
(* layer(a) + 1 = layer(b), there is exactly one connection per such pair  *)
(* and connection identifiers are unique.                                  *)

C7_AdjacentLayersOnly ==
  /\ \A j \in ConnIndices : Source(j) # 0 /\ Destination(j) # 0
  /\ \A a, b \in NodeIndices :
       LET between == {j \in ConnIndices : Source(j) = a /\ Destination(j) = b}
       IN IF nodes[a].layer + 1 = nodes[b].layer
          THEN Cardinality(between) = 1
          ELSE between = {}
  /\ \A j, l \in ConnIndices :
       connections[j].id = connections[l].id => j = l
  /\ \A a, b \in NodeIndices : nodes[a].id = nodes[b].id => a = b

\* A network of two non-empty hidden layers after a backward pass
C7_Witness ==
  /\ hist.op = "backward"
  /\ \E a, b, c \in NodeIndices :
       /\ nodes[a].layer = 1 /\ nodes[b].layer = 2 /\ nodes[c].layer = 3
       /\ \E j, l \in ConnIndices :
            /\ Source(j) = a /\ Destination(j) = b
            /\ Source(l) = b /\ Destination(l) = c

----------------------------------------------------------------------------
(* C8.  Constructing a network from a configuration that has a layer width *)
(* of 0 or less raises an error.                                           *)

C8_NonPositiveWidthRaises ==
  hist.op = "construct" /\ ~AllWidthsPositive => hist.threw

----------------------------------------------------------------------------
(* C9.  backward with a targets vector shorter than the output layer       *)
(* completes without raising, and no value derived from a missing target   *)
(* reaches a neuron error, a gradient or a weight.                         *)

C9_ShortTargetsTruncated ==
  (/\ hist.op = "backward"
   /\ Len(hist.arg) < Cardinality({i \in NodeIndices : nodes[i].type = "output"})
   /\ NoNaNBefore)
  => /\ ~hist.threw
     /\ \A i \in NodeIndices : nodes[i].error # NaN
     /\ \A j \in ConnIndices :
          connections[j].gradient # NaN /\ connections[j].weight # NaN

----------------------------------------------------------------------------
(* C10.  forward with an inputs vector shorter than the input layer does   *)
(* not raise, gives activation 0 to every input neuron beyond the vector   *)
(* and inputs[i] to the i-th input neuron for every supplied i.            *)

C10_ShortInputsDefaultToZero ==
  (/\ hist.op = "forward"
   /\ Len(hist.arg) < Cardinality({i \in NodeIndices : nodes[i].type = "input"}))
  => /\ ~hist.threw
     /\ \A i \in NodeIndices :
          nodes[i].type = "input" =>
            nodes[i].activation =
              IF RankInType(i) < Len(hist.arg)
              THEN hist.arg[RankInType(i) + 1] ELSE 0

\* A forward pass with one input on a network of two input neurons whose
\* second input neuron held a non-zero activation from the pass before
C10_Witness ==
  /\ hist.op = "forward" /\ Len(hist.arg) = 1
  /\ \E i, h \in NodeIndices :
       /\ nodes[i].type = "input" /\ RankInType(i) = 0
       /\ nodes[h].type = "input" /\ RankInType(h) = 1
       /\ nodes[i].activation = hist.arg[1] /\ nodes[i].activation # 0
       /\ hist.beforeNodes[h].activation # 0
       /\ nodes[h].activation = 0

----------------------------------------------------------------------------
(* C12.  A forward call that follows a forward call with the same inputs,  *)
(* no backward call between them, returns the same outputs and leaves      *)
(* every neuron's activation as the first call left it, whatever the       *)
(* activations were before the first call.                                 *)

C12_ForwardIdempotent ==
  (hist.op = "forward" /\ hist.prevOp = "forward" /\ hist.arg = hist.prevArg)
    => /\ hist.ret = hist.prevRet
       /\ Len(nodes) = Len(hist.beforeNodes)
       /\ \A i \in NodeIndices :
            nodes[i].activation = hist.beforeNodes[i].activation

\* Two forward calls in a row with the same non-empty inputs, on a network
\* with a hidden layer, the passes leaving a non-zero hidden activation and
\* a non-zero output
C12_Witness ==
  /\ hist.op = "forward" /\ hist.prevOp = "forward"
  /\ hist.arg = hist.prevArg /\ hist.arg # <<>>
  /\ \E i \in NodeIndices :
       nodes[i].type = "hidden" /\ nodes[i].activation # 0
  /\ \E k \in 1 .. Len(hist.ret) : hist.ret[k] # 0

----------------------------------------------------------------------------
(* C14.  In every reachable state a neuron's type is 'input' exactly when  *)
(* its layer is 0, 'output' exactly when its layer is the last layer       *)
(* index, 'hidden' otherwise; the ids are unique and are node-0, node-1,   *)
(* ... in creation order, which is ascending layer order; forward and      *)
(* backward leave every neuron's id, layer and type as they were.          *)

C14_NodeIdentityFixed ==
  LET lastLayer == Len(LayerSizes(config)) - 1
  IN /\ \A i \in NodeIndices :
          /\ nodes[i].type \in {"input", "hidden", "output"}
          /\ nodes[i].type = "input" <=> nodes[i].layer = 0
          /\ nodes[i].type = "output" <=> nodes[i].layer = lastLayer
          /\ nodes[i].type = "hidden" <=> nodes[i].layer \notin {0, lastLayer}
          /\ nodes[i].id = NodeId(i - 1)
          /\ i > 1 => nodes[i - 1].layer <= nodes[i].layer
     /\ \A i, h \in NodeIndices : nodes[i].id = nodes[h].id => i = h
     /\ hist.op \in {"forward", "backward"} =>
          /\ Len(nodes) = Len(hist.beforeNodes)
          /\ \A i \in NodeIndices :
               /\ nodes[i].id = hist.beforeNodes[i].id
               /\ nodes[i].layer = hist.beforeNodes[i].layer
               /\ nodes[i].type = hist.beforeNodes[i].type

\* A backward pass after a forward pass on a network with neurons of the
\* three types, the two passes having changed an activation and an error
C14_Witness ==
  /\ hist.op = "backward" /\ hist.prevOp = "forward"
  /\ \A t \in {"input", "hidden", "output"} :
       \E i \in NodeIndices : nodes[i].type = t
  /\ \E i \in NodeIndices :
       /\ nodes[i].activation # 0
       /\ nodes[i].error # hist.beforeNodes[i].error

----------------------------------------------------------------------------
(* C15.  With an activation selector that is none of 'relu', 'sigmoid',    *)
(* 'tanh', activate and activateDerivative return what they return for     *)
(* 'sigmoid', and a forward or backward call gives the results the same    *)
(* call gives on the same network configured with 'sigmoid'.               *)

SigmoidTwin == [config EXCEPT !.activationFunction = "sigmoid"]

\* The numbers a neuron's sum or activation takes in the last call
ValuesMet ==
  {nodes[i].activation : i \in NodeIndices}
    \cup {nodes[i].bias : i \in NodeIndices}
    \cup {connections[j].weight : j \in ConnIndices}
    \cup {NaN} \cup (-Scale .. Scale)

C15_UnknownSelectorIsSigmoid ==
  config.activationFunction \notin {"relu", "sigmoid", "tanh"} =>
    /\ \A x \in ValuesMet :
         /\ activate(config.activationFunction, x) = activate("sigmoid", x)
         /\ activate(config.activationFunction, x) = Sigmoid(x)
         /\ activateDerivative(config.activationFunction, x)
              = activateDerivative("sigmoid", x)
         /\ activateDerivative(config.activationFunction, x)
              = Mul(x, Sub(Scale, x))
    /\ hist.op = "forward" =>
         LET twin == forward(SigmoidTwin, hist.beforeNodes,
                             hist.beforeConnections, hist.arg)
         IN /\ twin.nodes = nodes
            /\ twin.connections = connections
            /\ twin.ret = hist.ret
    /\ hist.op = "backward" =>
         LET twin == backward(SigmoidTwin, hist.beforeNodes,
                              hist.beforeConnections, hist.arg)
         IN /\ twin.nodes = nodes
            /\ twin.connections = connections

\* A backward pass after a forward pass on a network whose selector is
\* "linear", the backward pass changing a weight
C15_Witness ==
  /\ config.activationFunction = "linear"
  /\ hist.op = "backward" /\ hist.prevOp = "forward"
  /\ \E j \in ConnIndices :
       /\ IsNumber(connections[j].weight)
       /\ connections[j].weight # hist.beforeConnections[j].weight

----------------------------------------------------------------------------
(* C16.  As stated: after any forward call every non-input activation is   *)
(* in [0, inf) for 'relu', strictly between 0 and 1 for 'sigmoid' and      *)
(* strictly between -1 and 1 for 'tanh', for all weights, biases and       *)
(* inputs.                                                                 *)

NonInputIndices == {i \in NodeIndices : nodes[i].type # "input"}

NumericBefore ==
  /\ \A i \in 1 .. Len(hist.beforeNodes) : IsNumber(hist.beforeNodes[i].bias)
  /\ \A j \in 1 .. Len(hist.beforeConnections) :
       IsNumber(hist.beforeConnections[j].weight)

----------------------------------------------------------------------------
(* C11.  As stated: a call of calculateLoss with a predictions vector and  *)
(* a targets vector of different lengths raises DimensionMismatchError.    *)

C11_LengthMismatchRaises ==
  (loss.called /\ Len(loss.predictions) # Len(loss.targets)) => loss.threw

----------------------------------------------------------------------------
(* C17.  For predictions p and targets t of the same length, the value     *)
(* calculateLoss(p, t) returns is the mean over i of (p[i] - t[i])^2; it   *)
(* is a number that is at least 0, and it is 0 when t = p.                 *)

----------------------------------------------------------------------------
(* C13.  No neuron record and no connection record is held by two network  *)
(* instances, nor twice by one instance, and a handler changes the records *)
(* of no instance but the one its training step runs on: training the new  *)
(* network changes no field of a prior one, and training a prior one       *)
(* changes no field of the new one.                                        *)

\* The references instance i of the application a holds, nodes first
RefsOf(a, i) == a.networks[i].nodes \o a.networks[i].connections

\* The records instance i of the application a holds
RecordsOf(a, i) == Deref(a.heap, RefsOf(a, i))

\* The references all instances hold, one after the other, are pairwise
\* different
NoSharedRecord(a) ==
  LET held == Flatten([i \in 1 .. Len(a.networks) |-> RefsOf(a, i)])
  IN Cardinality({held[k] : k \in 1 .. Len(held)}) = Len(held)

C13_NoSharedRecords ==
  [][/\ NoSharedRecord(app) /\ NoSharedRecord(app')
     /\ \A i \in 1 .. Len(app.networks) :
          /\ app'.networks[i] = app.networks[i]
          /\ RecordsOf(app', i) # RecordsOf(app, i) =>
               /\ app'.calls # <<>>
               /\ \A p \in 1 .. Len(app'.calls) : app'.calls[p].network = i]_vars

\* A training step has run on the third network built and changed a weight
\* of it, the two prior instances being still in the heap
C13_Witness ==
  /\ app.mounted
  /\ Len(app.networks) = 3 /\ app.network = 3
  /\ app.calls # <<>> /\ app.calls[1].network = 3
  /\ \E k \in 1 .. Len(app.networks[3].connections) :
       LET c == app.heap[app.networks[3].connections[k]]
       IN IsNumber(c.gradient) /\ c.gradient # 0

----------------------------------------------------------------------------
(* C19.  In the trace of engine calls of a training step every backward    *)
(* call comes right after a forward call on the same network instance      *)
(* with the inputs of the same sample, its targets being the outputs of    *)
(* that sample; the loss of the sample is calculateLoss of the predictions *)
(* that forward call returned and the sample's outputs, and the loss the   *)
(* step records is the mean of these.                                      *)

LossCalls == SelectSeq(app.calls, LAMBDA c : c.op = "calculateLoss")

C19_ForwardBeforeBackward ==
  (app.mounted /\ app.calls # <<>>) =>
    /\ \A p \in 1 .. Len(app.calls) :
         LET call == app.calls[p]
             sample == app.trainingData[call.sample]
         IN /\ call.op = "backward" =>
                 /\ p > 1
                 /\ app.calls[p - 1].op = "forward"
                 /\ app.calls[p - 1].network = call.network
                 /\ app.calls[p - 1].sample = call.sample
                 /\ app.calls[p - 1].inputs = sample.inputs
                 /\ call.targets = sample.outputs
            /\ call.op = "calculateLoss" =>
                 /\ p > 2
                 /\ app.calls[p - 2].op = "forward"
                 /\ app.calls[p - 2].sample = call.sample
                 /\ call.predictions = app.calls[p - 2].predictions
                 /\ call.targets = sample.outputs
    /\ \A k \in 1 .. Len(app.trainingData) :
         Cardinality({p \in 1 .. Len(app.calls) :
                       app.calls[p].op = "backward"
                         /\ app.calls[p].sample = k}) = 1
    /\ app.metrics # <<>>
    /\ app.metrics[Len(app.metrics)].loss =
         DivideByCount(SeqSum([k \in 1 .. Len(LossCalls) |-> LossCalls[k].loss]),
                       Len(app.trainingData))

\* A training step over four samples whose forward calls returned a
\* non-zero prediction and whose recorded loss is positive
C19_Witness ==
  /\ app.mounted
  /\ Len(app.trainingData) = 4 /\ Len(app.calls) = 12
  /\ \E p \in 1 .. Len(app.calls) :
       app.calls[p].op = "forward" /\ app.calls[p].predictions # <<0>>
  /\ app.metrics # <<>> /\ app.metrics[Len(app.metrics)].loss > 0
  /\ IsNumber(app.metrics[Len(app.metrics)].loss)

----------------------------------------------------------------------------
(* C20.  As stated: the metrics list is append-only.  A completed training *)
(* step appends exactly one record; every other handler (a step on an      *)
(* empty sample set, start, pause, reset, configuration change, dataset    *)
(* change) leaves the list as it is.                                       *)

IsPrefix(s, t) == Len(s) <= Len(t) /\ SubSeq(t, 1, Len(s)) = s

\* The handler completed a sweep over a non-empty sample set
SweepCompleted == app'.clock = app.clock + 1

\* The handler built a network: reset or configuration change
NetworkRebuilt == Len(app'.networks) > Len(app.networks)

AppendsOnly ==
  /\ IsPrefix(app.metrics, app'.metrics)
  /\ SweepCompleted => Len(app'.metrics) = Len(app.metrics) + 1
  /\ ~SweepCompleted => app'.metrics = app.metrics

C20_MetricsAppendOnly == [][AppendsOnly]_vars

(* C20, amended.  The metrics list is append-only between two rebuilds of  *)
(* the network: a completed training step appends exactly one record and   *)
(* leaves the earlier records as they are; a step on an empty sample set,  *)
(* start, pause, a speed change and a dataset change leave the list as it  *)
(* is; reset and configuration change empty the list.                      *)
C20_MetricsAppendOnlyUntilRebuild ==
  [][IF NetworkRebuilt THEN app'.metrics = <<>> ELSE AppendsOnly]_vars

\* Two records have been appended, the first one by an earlier step
C20_Witness ==
  /\ app.mounted
  /\ Len(app.metrics) = 2 /\ app.calls # <<>>
  /\ app.metrics[1].timestamp < app.metrics[2].timestamp

----------------------------------------------------------------------------
(* C21.  A backward call changes nothing but the errors of the neurons and *)
(* the gradients and weights of the connections: the activation, bias, id, *)
(* layer, type and position of every neuron, the id and the two endpoints  *)
(* of every connection, the number of neurons and of connections and the   *)
(* configuration are after the call what they were before it, and the call *)
(* returns no value.                                                       *)

\* The fields of a neuron a backward call leaves alone
NodeWithoutError(node) ==
  [id |-> node.id, x |-> node.x, y |-> node.y, layer |-> node.layer,
   activation |-> node.activation, bias |-> node.bias, type |-> node.type]

\* The fields of a connection no call changes
ConnectionEndpoints(conn) ==
  [id |-> conn.id, fromNodeId |-> conn.fromNodeId, toNodeId |-> conn.toNodeId]

BackwardFrame ==
  /\ config' = config
  /\ Len(nodes') = Len(nodes)
  /\ Len(connections') = Len(connections)
  /\ \A i \in 1 .. Len(nodes) :
       NodeWithoutError(nodes'[i]) = NodeWithoutError(nodes[i])
  /\ \A j \in 1 .. Len(connections) :
       ConnectionEndpoints(connections'[j]) = ConnectionEndpoints(connections[j])
  /\ hist'.ret = <<>>
  /\ hist'.arg \in TargetVectors

C21_BackwardFrame == [][hist'.op = "backward" => BackwardFrame]_vars

\* A backward pass after a forward pass that changed the error of a hidden
\* neuron whose activation is not zero, and a weight
C21_Witness ==
  /\ hist.op = "backward" /\ hist.prevOp = "forward"
  /\ \E i \in NodeIndices :
       /\ nodes[i].type = "hidden"
       /\ nodes[i].activation # 0
       /\ IsNumber(nodes[i].error) /\ nodes[i].error # 0
  /\ \E j \in ConnIndices :
       connections[j].weight # hist.beforeConnections[j].weight

----------------------------------------------------------------------------
(* C22.  A forward call changes nothing but the activations of the         *)
(* neurons: every bias and stored error, every weight and gradient, the    *)
(* neurons and connections with their ids, layers, types and endpoints and *)
(* the configuration are after the call what they were before it; the call *)
(* returns exactly outputSize values, the k-th being the activation of the *)
(* k-th output neuron in creation order.                                   *)

\* The fields of a neuron a forward call leaves alone
NodeWithoutActivation(node) ==
  [id |-> node.id, x |-> node.x, y |-> node.y, layer |-> node.layer,
   bias |-> node.bias, type |-> node.type, error |-> node.error]

\* The output neurons after the call, as indices in creation order
OutputsAfter == SelectSeq(Indices(nodes'), LAMBDA i : nodes'[i].type = "output")

ForwardFrame ==
  /\ config' = config
  /\ connections' = connections
  /\ Len(nodes') = Len(nodes)
  /\ \A i \in 1 .. Len(nodes) :
       NodeWithoutActivation(nodes'[i]) = NodeWithoutActivation(nodes[i])
  /\ Len(hist'.ret) = config.outputSize
  /\ Len(OutputsAfter) = config.outputSize
  /\ \A k \in 1 .. Len(hist'.ret) :
       hist'.ret[k] = nodes'[OutputsAfter[k]].activation
  /\ \A k \in 1 .. Len(OutputsAfter) - 1 : OutputsAfter[k] < OutputsAfter[k + 1]
  /\ hist'.arg \in InputVectors

C22_ForwardFrame == [][hist'.op = "forward" => ForwardFrame]_vars

\* A forward pass after a backward pass (errors and gradients are stored)
\* on a network with two output neurons, returning two different values
C22_Witness ==
  /\ hist.op = "forward" /\ hist.prevOp = "backward"
  /\ config.outputSize = 2 /\ Len(hist.ret) = 2
  /\ hist.ret[1] # hist.ret[2]
  /\ \E i \in NodeIndices : IsNumber(nodes[i].error) /\ nodes[i].error # 0
  /\ \E j \in ConnIndices : connections[j].gradient # 0

\* ---------------------------------------------------------------------------
\* C23  the instance a timer-driven step trains
\* ---------------------------------------------------------------------------

\* The step of this transition was made by the interval: the interval is set
\* only while training, and the Step button is disabled while training
TimerStep == app.timer.set /\ SweepCompleted

\* Every engine call of the handler that just ran went to instance id
CallsOn(a, id) == \A p \in 1 .. Len(a.calls) : a.calls[p].network = id

\* C23: every training step the timer fires runs its forward and backward
\* calls on the network instance held in the application state at that
\* moment, also when the configuration was changed while training runs: no
\* tick trains an instance that has been replaced.
C23_TickTrainsCurrentNetwork ==
  [][TimerStep => CallsOn(app', app.network)]_vars

\* ---------------------------------------------------------------------------
\* C24  epoch numbers of the metric records
\* ---------------------------------------------------------------------------

\* C24: since the last reset or configuration change the n-th metric record
\* has epoch n, and the newest record's epoch is the value of currentEpoch
\* after its step, for Step clicks and consecutive timer steps alike.
C24_EpochsCountFromOne ==
  /\ \A n \in 1 .. Len(app.metrics) : app.metrics[n].epoch = n
  /\ app.metrics # <<>> => app.metrics[Len(app.metrics)].epoch = app.currentEpoch

\* ---------------------------------------------------------------------------
\* C25  the shape of the training samples
\* ---------------------------------------------------------------------------

\* sample has as many inputs and outputs as cfg has input and output nodes
FitsLayers(sample, cfg) ==
  /\ Len(sample.inputs) = cfg.inputSize
  /\ Len(sample.outputs) = cfg.outputSize

\* C25: in every reachable state each sample of the dataset has exactly
\* inputSize inputs and outputSize outputs of the current configuration,
\* whatever sequence of add, remove, load-sample, import and clear produced
\* the dataset, so no forward or backward call of a training step is given a
\* vector of another length.
C25_SamplesFitLayers ==
  /\ \A k \in 1 .. Len(app.trainingData) :
       FitsLayers(app.trainingData[k], app.config)
  /\ \A p \in 1 .. Len(app.calls) :
       /\ app.calls[p].op = "forward"
            => Len(app.calls[p].inputs) = app.config.inputSize
       /\ app.calls[p].op = "backward"
            => Len(app.calls[p].targets) = app.config.outputSize


====
